---- MODULE Spec2Model ----
(***************************************************************************)
(* Model of cloud/scope/machine.go: construction of a MachineScope         *)
(* (parameter validation, credential precedence, token resolution, client  *)
(* construction, patch-helper snapshot) and the operations of a scope      *)
(* (PatchObject, Close, AddFinalizer, GetBootstrapData,                    *)
(* AddCredentialsRefFinalizer, RemoveCredentialsRefFinalizer).             *)
(*                                                                         *)
(* Tokens and secret values are byte strings, modelled as sequences of     *)
(* strings: the empty sequence is the empty byte string, of length 0.      *)
(***************************************************************************)
EXTENDS Integers, Sequences, FiniteSets, TLC

\* Number of scope operations followed after construction.
MaxOps == 3

----------------------------------------------------------------------------
(* Values *)

\* A key that a Secret's Data map does not hold.
Absent == <<"<absent>">>
\* The empty byte string / empty Go string.
Empty == <<>>

\* Namespaces of the owner LinodeMachine and of the parent LinodeCluster.
MachineNamespace == "ns1"
ClusterNamespace == "ns2"
Namespaces == {MachineNamespace, ClusterNamespace}

\* Names of the secrets the two credential references point at.
MachineCredsName == "machine-creds"
ClusterCredsName == "cluster-creds"
SecretNames == {MachineCredsName, ClusterCredsName}

\* A nil *corev1.SecretReference.
NilRef == [present |-> FALSE, name |-> "", namespace |-> ""]

\* Controller default credentials as passed by the caller (apiKey, dnsKey).
ControllerApiKey == <<"controller", "apiKey">>
ControllerDnsKey == <<"controller", "dnsKey">>

\* The value stored under `key` in the secret ns/name.
SecretToken(ns, name, key) == <<ns, name, key>>

\* The contents a credential secret can have: not existing, or a Data map
\* with apiToken / dnsToken absent, empty or set.
SecretShapes ==
    { [exists |-> FALSE, api |-> "absent", dns |-> "absent"],
      [exists |-> TRUE,  api |-> "absent", dns |-> "set"],
      [exists |-> TRUE,  api |-> "set",    dns |-> "absent"],
      [exists |-> TRUE,  api |-> "set",    dns |-> "empty"],
      [exists |-> TRUE,  api |-> "set",    dns |-> "set"],
      [exists |-> TRUE,  api |-> "empty",  dns |-> "absent"] }

\* The Data map entry of secret ns/name for `key`, given the secret's shape.
SecretData(shape, ns, name, key) ==
    LET s == IF key = "apiToken" THEN shape.api ELSE shape.dns
    IN  CASE s = "absent" -> Absent
          [] s = "empty"  -> Empty
          [] OTHER        -> SecretToken(ns, name, key)

VARIABLES
    machineRef,      \* LinodeMachine.Spec.CredentialsRef
    clusterRef,      \* LinodeCluster.Spec.CredentialsRef
    secrets,         \* credential secrets of the control plane: [ns, name] -> shape
    secretFinalizers,\* finalizers on the credential secrets: [ns, name] -> sequence
    dataSecretName,  \* Machine.Spec.Bootstrap.DataSecretName is non-nil
    bootSecret,      \* the bootstrap secret: "missing", "novalue", "value"
    cp,              \* control-plane copy of the LinodeMachine
    obj,             \* in-memory LinodeMachine (params.LinodeMachine == s.LinodeMachine)
    scope,           \* outcome of NewMachineScope and the fields of the MachineScope
    reads,           \* secret reads issued by NewMachineScope, in order
    clients,         \* tokens CreateLinodeClient was called with, in order
    hist,            \* operations invoked on the scope, in order, with their outcome
    extMod           \* another writer changed cp after the helper's snapshot was taken

vars == <<machineRef, clusterRef, secrets, secretFinalizers, dataSecretName,
          bootSecret, cp, obj, scope, reads, clients, hist, extMod>>

----------------------------------------------------------------------------
(* validateMachineScopeParams *)

NoErr == "nil"

\* params: which of the four pointers are non-nil.
ParamSets == [Cluster : BOOLEAN, Machine : BOOLEAN,
              LinodeCluster : BOOLEAN, LinodeMachine : BOOLEAN]

AllParams == [Cluster |-> TRUE, Machine |-> TRUE,
              LinodeCluster |-> TRUE, LinodeMachine |-> TRUE]

\* The validation without its check of params.Machine.
validateMachineScopeParams_NoMachineCheck(params) ==
    CASE ~params.Cluster       -> "cluster is required when creating a MachineScope"
      [] ~params.LinodeCluster -> "linodeCluster is required when creating a MachineScope"
      [] ~params.LinodeMachine -> "linodeMachine is required when creating a MachineScope"
      [] OTHER                 -> NoErr

validateMachineScopeParams(params) ==
    CASE ~params.Cluster       -> "cluster is required when creating a MachineScope"
      [] ~params.Machine       -> "machine is required when creating a MachineScope"
      [] ~params.LinodeCluster -> "linodeCluster is required when creating a MachineScope"
      [] ~params.LinodeMachine -> "linodeMachine is required when creating a MachineScope"
      [] OTHER                 -> NoErr

----------------------------------------------------------------------------
(* Credential precedence: the switch of NewMachineScope *)

\* The switch with its first two cases exchanged: the parent's reference wins.
SelectCredentialRef_ParentFirst(mRef, cRef) ==
    CASE cRef.present -> [ref |-> cRef, defaultNamespace |-> ClusterNamespace,
                          source |-> "cluster"]
      [] mRef.present -> [ref |-> mRef, defaultNamespace |-> MachineNamespace,
                          source |-> "machine"]
      [] OTHER        -> [ref |-> NilRef, defaultNamespace |-> "",
                          source |-> "controller"]

\* The switch taking the owner's namespace as the default in both cases.
SelectCredentialRef_MachineNamespace(mRef, cRef) ==
    CASE mRef.present -> [ref |-> mRef, defaultNamespace |-> MachineNamespace,
                          source |-> "machine"]
      [] cRef.present -> [ref |-> cRef, defaultNamespace |-> MachineNamespace,
                          source |-> "cluster"]
      [] OTHER        -> [ref |-> NilRef, defaultNamespace |-> "",
                          source |-> "controller"]

\* credentialRef, defaultNamespace after the switch; `source` names the case taken.
SelectCredentialRef(mRef, cRef) ==
    CASE mRef.present -> [ref |-> mRef, defaultNamespace |-> MachineNamespace,
                          source |-> "machine"]
      [] cRef.present -> [ref |-> cRef, defaultNamespace |-> ClusterNamespace,
                          source |-> "cluster"]
      [] OTHER        -> [ref |-> NilRef, defaultNamespace |-> "",
                          source |-> "controller"]

\* The namespace a reference is looked up in: its own, or the default when it
\* names none.
RefNamespace(ref, defaultNamespace) ==
    IF ref.namespace = "" THEN defaultNamespace ELSE ref.namespace

\* getCredentialDataFromRef: Get the secret, return Data[key]; an error when
\* the Get fails, the secret does not exist or the key is not in Data.
getCredentialDataFromRef(store, ref, defaultNamespace, key, getFails) ==
    LET ns    == RefNamespace(ref, defaultNamespace)
        shape == store[<<ns, ref.name>>]
        data  == SecretData(shape, ns, ref.name, key)
    IN  IF getFails \/ ~shape.exists \/ data = Absent
        THEN [err |-> TRUE,  data |-> Empty, ns |-> ns, name |-> ref.name, key |-> key,
              ref |-> ref, defaultNamespace |-> defaultNamespace]
        ELSE [err |-> FALSE, data |-> data,  ns |-> ns, name |-> ref.name, key |-> key,
              ref |-> ref, defaultNamespace |-> defaultNamespace]

\* The record of one secret read: the secret and key addressed, the outcome,
\* and the reference and default namespace the lookup was handed.
ReadOf(r) == [ns |-> r.ns, name |-> r.name, key |-> r.key, err |-> r.err,
              data |-> r.data, ref |-> r.ref, defaultNamespace |-> r.defaultNamespace]

\* The fallback without its `len(dnsToken) == 0` test.
ResolveDnsToken_ErrOnly(apiToken, dnsRead) ==
    IF dnsRead.err THEN apiToken ELSE dnsRead.data

\* dnsToken after the fallback: the primary token when the read failed or
\* returned nothing.
ResolveDnsToken(apiToken, dnsRead) ==
    IF dnsRead.err \/ Len(dnsRead.data) = 0 THEN apiToken ELSE dnsRead.data

\* The default case with the fallback of the reference case applied to it.
ControllerTokens_Fallback(apiKey, dnsKey) ==
    [err |-> NoErr, apiKey |-> apiKey,
     dnsKey |-> IF Len(dnsKey) = 0 THEN apiKey ELSE dnsKey, reads |-> <<>>]

\* credentialRef == nil: the block is skipped, apiKey and dnsKey stay as passed.
ControllerTokens(apiKey, dnsKey) ==
    [err |-> NoErr, apiKey |-> apiKey, dnsKey |-> dnsKey, reads |-> <<>>]

\* The block going on after a failed apiToken read, with the empty token.
ResolveTokens_IgnoreApiErr(apiKey, dnsKey, sel, store, fail1, fail2) ==
    IF ~sel.ref.present
    THEN ControllerTokens(apiKey, dnsKey)
    ELSE LET apiRead == getCredentialDataFromRef(store, sel.ref, sel.defaultNamespace,
                                                 "apiToken", fail1)
             dnsRead == getCredentialDataFromRef(store, sel.ref, sel.defaultNamespace,
                                                 "dnsToken", fail2)
         IN  [err |-> NoErr, apiKey |-> apiRead.data,
              dnsKey |-> ResolveDnsToken(apiRead.data, dnsRead),
              reads |-> <<ReadOf(apiRead), ReadOf(dnsRead)>>]

\* The block returning the error of a failed dnsToken read.
ResolveTokens_DnsErrFatal(apiKey, dnsKey, sel, store, fail1, fail2) ==
    IF ~sel.ref.present
    THEN ControllerTokens(apiKey, dnsKey)
    ELSE LET apiRead == getCredentialDataFromRef(store, sel.ref, sel.defaultNamespace,
                                                 "apiToken", fail1)
             dnsRead == getCredentialDataFromRef(store, sel.ref, sel.defaultNamespace,
                                                 "dnsToken", fail2)
         IN  IF apiRead.err
             THEN [err |-> "credentials from secret ref", apiKey |-> apiKey,
                   dnsKey |-> dnsKey, reads |-> <<ReadOf(apiRead)>>]
             ELSE IF dnsRead.err
             THEN [err |-> "credentials from secret ref", apiKey |-> apiRead.data,
                   dnsKey |-> dnsKey, reads |-> <<ReadOf(apiRead), ReadOf(dnsRead)>>]
             ELSE [err |-> NoErr, apiKey |-> apiRead.data,
                   dnsKey |-> ResolveDnsToken(apiRead.data, dnsRead),
                   reads |-> <<ReadOf(apiRead), ReadOf(dnsRead)>>]

\* apiKey, dnsKey after the `if credentialRef != nil` block, with the reads made.
ResolveTokens(apiKey, dnsKey, sel, store, fail1, fail2) ==
    IF ~sel.ref.present
    THEN ControllerTokens(apiKey, dnsKey)
    ELSE LET apiRead == getCredentialDataFromRef(store, sel.ref, sel.defaultNamespace,
                                                 "apiToken", fail1)
             dnsRead == getCredentialDataFromRef(store, sel.ref, sel.defaultNamespace,
                                                 "dnsToken", fail2)
         IN  IF apiRead.err
             THEN [err |-> "credentials from secret ref", apiKey |-> apiKey,
                   dnsKey |-> dnsKey, reads |-> <<ReadOf(apiRead)>>]
             ELSE [err |-> NoErr, apiKey |-> apiRead.data,
                   dnsKey |-> ResolveDnsToken(apiRead.data, dnsRead),
                   reads |-> <<ReadOf(apiRead), ReadOf(dnsRead)>>]

\* CreateLinodeClient: fails when it cannot be initialised with the token.
CreateLinodeClient(token) == token # Empty

----------------------------------------------------------------------------
(* The LinodeMachine object and its finalizers *)

\* infrav1alpha2.MachineFinalizer, and a finalizer owned by another controller.
MachineFinalizer == "linodemachine.infrastructure.cluster.x-k8s.io"
OtherFinalizer == "other.controller/finalizer"

NoProviderID == ""
SomeProviderID == "linode://1"

\* The fields of a LinodeMachine that this model follows.
LinodeMachineObj(fins, pid) == [finalizers |-> fins, providerID |-> pid]

RECURSIVE Occurrences(_, _)
\* How many times token t occurs in the finalizer list.
Occurrences(fins, t) ==
    IF fins = <<>> THEN 0
    ELSE (IF Head(fins) = t THEN 1 ELSE 0) + Occurrences(Tail(fins), t)

ContainsFinalizer(fins, t) == \E i \in 1..Len(fins) : fins[i] = t

\* controllerutil.AddFinalizer: appends t unless the list holds it; reports
\* whether the list was changed.
controllerutil_AddFinalizer(fins, t) ==
    IF ContainsFinalizer(fins, t)
    THEN [finalizers |-> fins, changed |-> FALSE]
    ELSE [finalizers |-> Append(fins, t), changed |-> TRUE]

\* controllerutil.RemoveFinalizer: drops every occurrence of t; reports
\* whether the list was changed.
controllerutil_RemoveFinalizer(fins, t) ==
    LET kept == SelectSeq(fins, LAMBDA f : f # t)
    IN  [finalizers |-> kept, changed |-> Len(kept) # Len(fins)]

----------------------------------------------------------------------------
(* NewMachineScope *)

\* No scope: NewMachineScope has not been called.
NoScope ==
    [state |-> "none", err |-> NoErr, params |-> AllParams,
     inApiKey |-> Empty, inDnsKey |-> Empty, source |-> "none",
     apiKey |-> Empty, dnsKey |-> Empty,
     helper |-> FALSE, before |-> LinodeMachineObj(<<>>, NoProviderID)]

\* What a call of NewMachineScope returns and does: the scope (or the error),
\* the secret reads made and the tokens the clients were constructed with.
\* patch.NewHelper keeps a copy of the object as it is at that moment.
Construct(apiKey, dnsKey, params, mRef, cRef, store, o, fail1, fail2, helperFails) ==
    LET verr == validateMachineScopeParams(params)
        sel  == SelectCredentialRef(mRef, cRef)
        tok  == ResolveTokens(apiKey, dnsKey, sel, store, fail1, fail2)
        base == [NoScope EXCEPT !.params = params, !.inApiKey = apiKey,
                                !.inDnsKey = dnsKey]
        res  == [base EXCEPT !.source = sel.source, !.apiKey = tok.apiKey,
                             !.dnsKey = tok.dnsKey]
    IN  CASE verr # NoErr ->
               [scope |-> [base EXCEPT !.state = "failed", !.err = verr],
                reads |-> <<>>, clients |-> <<>>]
          [] verr = NoErr /\ tok.err # NoErr ->
               [scope |-> [res EXCEPT !.state = "failed", !.err = tok.err],
                reads |-> tok.reads, clients |-> <<>>]
          [] verr = NoErr /\ tok.err = NoErr /\ ~CreateLinodeClient(tok.apiKey) ->
               [scope |-> [res EXCEPT !.state = "failed",
                                      !.err = "failed to create linode client"],
                reads |-> tok.reads, clients |-> <<tok.apiKey>>]
          [] verr = NoErr /\ tok.err = NoErr /\ CreateLinodeClient(tok.apiKey)
               /\ ~CreateLinodeClient(tok.dnsKey) ->
               [scope |-> [res EXCEPT !.state = "failed",
                                      !.err = "failed to create linode client"],
                reads |-> tok.reads, clients |-> <<tok.apiKey, tok.dnsKey>>]
          [] verr = NoErr /\ tok.err = NoErr /\ CreateLinodeClient(tok.apiKey)
               /\ CreateLinodeClient(tok.dnsKey) /\ helperFails ->
               [scope |-> [res EXCEPT !.state = "failed",
                                      !.err = "failed to init patch helper"],
                reads |-> tok.reads, clients |-> <<tok.apiKey, tok.dnsKey>>]
          [] OTHER ->
               [scope |-> [res EXCEPT !.state = "built", !.helper = TRUE,
                                      !.before = o],
                reads |-> tok.reads, clients |-> <<tok.apiKey, tok.dnsKey>>]

ApiKeyInputs == {ControllerApiKey, Empty}
DnsKeyInputs == {ControllerDnsKey, Empty}

\* NewMachineScope registering the machine finalizer on the object it wraps.
NewMachineScope_AddsFinalizer ==
    /\ scope.state = "none"
    /\ \E apiKey \in ApiKeyInputs, dnsKey \in DnsKeyInputs, params \in ParamSets,
          fail1 \in BOOLEAN, fail2 \in BOOLEAN, helperFails \in BOOLEAN :
          LET r == Construct(apiKey, dnsKey, params, machineRef, clusterRef,
                             secrets, obj, fail1, fail2, helperFails)
          IN  /\ scope' = r.scope
              /\ reads' = r.reads
              /\ clients' = r.clients
              /\ obj' = IF r.scope.state = "built"
                        THEN [obj EXCEPT !.finalizers =
                                 controllerutil_AddFinalizer(@, MachineFinalizer).finalizers]
                        ELSE obj
    /\ UNCHANGED <<machineRef, clusterRef, secrets, secretFinalizers,
                   dataSecretName, bootSecret, cp, hist, extMod>>

NewMachineScope ==
    /\ scope.state = "none"
    /\ \E apiKey \in ApiKeyInputs, dnsKey \in DnsKeyInputs, params \in ParamSets,
          fail1 \in BOOLEAN, fail2 \in BOOLEAN, helperFails \in BOOLEAN :
          LET r == Construct(apiKey, dnsKey, params, machineRef, clusterRef,
                             secrets, obj, fail1, fail2, helperFails)
          IN  /\ scope' = r.scope
              /\ reads' = r.reads
              /\ clients' = r.clients
    /\ UNCHANGED <<machineRef, clusterRef, secrets, secretFinalizers,
                   dataSecretName, bootSecret, cp, obj, hist, extMod>>

----------------------------------------------------------------------------
(* PatchObject / Close: patch.Helper.Patch on the snapshot of NewHelper *)

\* Outcomes of an operation.
Ok == "ok"
PatchFailed == "patch failed"

\* The helper compares the object with the copy taken by NewHelper; the copy
\* is never refreshed. Nothing differs: no request is sent.
HelperHasChanges(before, after) == before # after

\* One entry of hist: the operation, what it returned, the patch requests and
\* Gets it issued, and what held when it returned.
OpRecord(op, ret, writes, gets, data, had, o, server, overwrote) ==
    [op |-> op, ret |-> ret, writes |-> writes, gets |-> gets, data |-> data,
     had |-> had,                                     \* MachineFinalizer was in memory before
     count |-> Occurrences(o.finalizers, MachineFinalizer),   \* ... times in memory after
     cpHas |-> ContainsFinalizer(server.finalizers, MachineFinalizer),
     dirty |-> HelperHasChanges(scope.before, o),     \* memory differs from the snapshot
     stale |-> extMod,                                \* cp was changed by another writer
     overwrote |-> overwrote]                         \* that change was undone by the patch

\* The merge patch computed from (before, after) applied by the server: a
\* changed field replaces the server's value, the finalizer list as a whole.
\* The patch names no resourceVersion, so the server applies it whatever
\* happened to its copy in between.
ApplyMergePatch(server, before, after) ==
    [finalizers |-> IF before.finalizers # after.finalizers
                    THEN after.finalizers ELSE server.finalizers,
     providerID |-> IF before.providerID # after.providerID
                    THEN after.providerID ELSE server.providerID]

\* The patch undid what another writer did to its finalizer.
Overwrites(server, patched) ==
    /\ extMod
    /\ ContainsFinalizer(server.finalizers, OtherFinalizer)
         # ContainsFinalizer(patched.finalizers, OtherFinalizer)

\* s.PatchHelper.Patch(ctx, s.LinodeMachine) with the object being o, as the
\* body of operation op; netOk: the request reaches the server and succeeds.
HelperPatch(op, o, had, netOk) ==
    IF ~HelperHasChanges(scope.before, o)
    THEN /\ cp' = cp
         /\ hist' = Append(hist, OpRecord(op, Ok, 0, 0, Empty, had, o, cp, FALSE))
    ELSE IF netOk
    THEN LET patched == ApplyMergePatch(cp, scope.before, o)
         IN  /\ cp' = patched
             /\ hist' = Append(hist, OpRecord(op, Ok, 1, 0, Empty, had, o, patched,
                                              Overwrites(cp, patched)))
    ELSE /\ cp' = cp
         /\ hist' = Append(hist, OpRecord(op, PatchFailed, 1, 0, Empty, had, o, cp,
                                          FALSE))

\* The scope exists and may be operated on.
CanOperate == scope.state = "built" /\ Len(hist) < MaxOps

ScopeFrame == UNCHANGED <<machineRef, clusterRef, secrets, secretFinalizers,
                          dataSecretName, bootSecret, scope, reads, clients, extMod>>

PatchObject ==
    /\ CanOperate
    /\ \E netOk \in BOOLEAN :
          HelperPatch("PatchObject", obj,
                      ContainsFinalizer(obj.finalizers, MachineFinalizer), netOk)
    /\ UNCHANGED obj
    /\ ScopeFrame

Close ==
    /\ CanOperate
    /\ \E netOk \in BOOLEAN :
          HelperPatch("Close", obj,
                      ContainsFinalizer(obj.finalizers, MachineFinalizer), netOk)
    /\ UNCHANGED obj
    /\ ScopeFrame

\* AddFinalizer closing the scope whatever controllerutil.AddFinalizer returns.
AddFinalizer_AlwaysClose ==
    /\ CanOperate
    /\ LET had == ContainsFinalizer(obj.finalizers, MachineFinalizer)
           r   == controllerutil_AddFinalizer(obj.finalizers, MachineFinalizer)
           o   == [obj EXCEPT !.finalizers = r.finalizers]
       IN  /\ obj' = o
           /\ \E netOk \in BOOLEAN : HelperPatch("AddFinalizer", o, had, netOk)
    /\ ScopeFrame

\* AddFinalizer taking the token off the in-memory list again when the patch fails.
AddFinalizer_Rollback ==
    /\ CanOperate
    /\ LET had == ContainsFinalizer(obj.finalizers, MachineFinalizer)
           r   == controllerutil_AddFinalizer(obj.finalizers, MachineFinalizer)
           o   == [obj EXCEPT !.finalizers = r.finalizers]
       IN  IF r.changed
           THEN \/ /\ obj' = o
                   /\ HelperPatch("AddFinalizer", o, had, TRUE)
                \/ /\ obj' = obj
                   /\ cp' = cp
                   /\ hist' = Append(hist, OpRecord("AddFinalizer", PatchFailed, 1, 0,
                                                    Empty, had, obj, cp, FALSE))
           ELSE /\ obj' = o
                /\ cp' = cp
                /\ hist' = Append(hist, OpRecord("AddFinalizer", Ok, 0, 0, Empty,
                                                 had, o, cp, FALSE))
    /\ ScopeFrame

AddFinalizer ==
    /\ CanOperate
    /\ LET had == ContainsFinalizer(obj.finalizers, MachineFinalizer)
           r   == controllerutil_AddFinalizer(obj.finalizers, MachineFinalizer)
           o   == [obj EXCEPT !.finalizers = r.finalizers]
       IN  /\ obj' = o
           /\ IF r.changed
              THEN \E netOk \in BOOLEAN : HelperPatch("AddFinalizer", o, had, netOk)
              ELSE /\ cp' = cp
                   /\ hist' = Append(hist, OpRecord("AddFinalizer", Ok, 0, 0, Empty,
                                                    had, o, cp, FALSE))
    /\ ScopeFrame

\* The reconciler changes the owner object in memory between two operations
\* of the scope (it records or clears the instance's provider ID).
Mutate ==
    /\ CanOperate
    /\ LET o == [obj EXCEPT !.providerID =
                     IF @ = NoProviderID THEN SomeProviderID ELSE NoProviderID]
       IN  /\ obj' = o
           /\ hist' = Append(hist, OpRecord("Mutate", Ok, 0, 0, Empty,
                                 ContainsFinalizer(obj.finalizers, MachineFinalizer),
                                 o, cp, FALSE))
    /\ UNCHANGED cp
    /\ ScopeFrame

\* Another writer adds or removes its own finalizer on the control-plane copy.
ExternalWrite ==
    /\ cp' = [cp EXCEPT !.finalizers =
                 IF ContainsFinalizer(@, OtherFinalizer)
                 THEN controllerutil_RemoveFinalizer(@, OtherFinalizer).finalizers
                 ELSE Append(@, OtherFinalizer)]
    /\ extMod' = (extMod \/ scope.state = "built")
    /\ UNCHANGED <<machineRef, clusterRef, secrets, secretFinalizers, dataSecretName,
                   bootSecret, obj, scope, reads, clients, hist>>

----------------------------------------------------------------------------
(* GetBootstrapData *)

NilDataSecret == "bootstrap data secret is nil"
GetSecretFailed == "failed to retrieve bootstrap data secret"
ValueKeyMissing == "bootstrap data secret value key is missing"

\* The bytes under the `value` key of the bootstrap secret.
BootstrapValue == <<"bootstrap", "value">>

\* GetBootstrapData without its test of DataSecretName: the Get is issued with
\* whatever name there is.
BootstrapResult_NoNilCheck(hasName, secret, getFails) ==
    CASE getFails \/ secret = "missing" \/ ~hasName ->
           [ret |-> GetSecretFailed, gets |-> 1, data |-> Empty]
      [] ~getFails /\ hasName /\ secret = "novalue" ->
           [ret |-> ValueKeyMissing, gets |-> 1, data |-> Empty]
      [] OTHER ->
           [ret |-> Ok, gets |-> 1, data |-> BootstrapValue]

\* GetBootstrapData without its test of the `value` key: the zero value of the
\* map lookup is returned as the payload.
BootstrapResult_NoKeyCheck(hasName, secret, getFails) ==
    CASE ~hasName ->
           [ret |-> NilDataSecret, gets |-> 0, data |-> Empty]
      [] hasName /\ (getFails \/ secret = "missing") ->
           [ret |-> GetSecretFailed, gets |-> 1, data |-> Empty]
      [] hasName /\ ~getFails /\ secret = "novalue" ->
           [ret |-> Ok, gets |-> 1, data |-> Empty]
      [] OTHER ->
           [ret |-> Ok, gets |-> 1, data |-> BootstrapValue]

\* What GetBootstrapData returns and how many Gets it issues: hasName is
\* DataSecretName != nil, secret the state of the secret of that name,
\* getFails a Get that errors for another reason.
BootstrapResult(hasName, secret, getFails) ==
    CASE ~hasName ->
           [ret |-> NilDataSecret, gets |-> 0, data |-> Empty]
      [] hasName /\ (getFails \/ secret = "missing") ->
           [ret |-> GetSecretFailed, gets |-> 1, data |-> Empty]
      [] hasName /\ ~getFails /\ secret = "novalue" ->
           [ret |-> ValueKeyMissing, gets |-> 1, data |-> Empty]
      [] OTHER ->
           [ret |-> Ok, gets |-> 1, data |-> BootstrapValue]

GetBootstrapData ==
    /\ CanOperate
    /\ \E getFails \in BOOLEAN :
          LET r == BootstrapResult(dataSecretName, bootSecret, getFails)
          IN  hist' = Append(hist, OpRecord("GetBootstrapData", r.ret, 0, r.gets, r.data,
                                 ContainsFinalizer(obj.finalizers, MachineFinalizer),
                                 obj, cp, FALSE))
    /\ UNCHANGED <<cp, obj>>
    /\ ScopeFrame

----------------------------------------------------------------------------
(* removeFinalizer: remove the token if present and persist at once *)

RemoveFinalizer ==
    /\ CanOperate
    /\ LET had == ContainsFinalizer(obj.finalizers, MachineFinalizer)
           r   == controllerutil_RemoveFinalizer(obj.finalizers, MachineFinalizer)
           o   == [obj EXCEPT !.finalizers = r.finalizers]
       IN  /\ obj' = o
           /\ IF r.changed
              THEN \E netOk \in BOOLEAN : HelperPatch("RemoveFinalizer", o, had, netOk)
              ELSE /\ cp' = cp
                   /\ hist' = Append(hist, OpRecord("RemoveFinalizer", Ok, 0, 0, Empty,
                                                    had, o, cp, FALSE))
    /\ ScopeFrame

----------------------------------------------------------------------------
(* AddCredentialsRefFinalizer / RemoveCredentialsRefFinalizer *)

\* Kind, API group and name of the owner LinodeMachine, and the name of
\* another LinodeMachine that references the same secrets.
MachineKind == "linodemachine"
MachineGroup == "infrastructure.cluster.x-k8s.io"
MachineName == "machine-1"
OtherMachineName == "machine-2"

\* toFinalizer: the token derived from an object's kind, group, namespace and
\* name; an object without namespace gets the shorter form.
toFinalizer(kind, group, namespace, name) ==
    IF namespace = "" THEN <<kind, group, name>>
    ELSE <<kind, group, namespace, name>>

\* The token another LinodeMachine registers on a secret it references.
OtherMachineToken == toFinalizer(MachineKind, MachineGroup, MachineNamespace,
                                 OtherMachineName)

GetCredentialsFailed == "get credentials secret failed"
UpdateFailed == "update credentials secret failed"

\* No secret addressed, no token used.
NoKey == <<"", "">>
NoToken == <<>>

\* One entry of hist for an operation on the credential secret: what it
\* returned, the Gets and Updates it issued, the secret addressed, the token
\* used and the finalizers of all secrets before and after.
CredOpRecord(op, ret, gets, writes, key, token, after) ==
    [op |-> op, ret |-> ret, gets |-> gets, writes |-> writes, secret |-> key,
     token |-> token, before |-> secretFinalizers, after |-> after]

\* addCredentialsFinalizer / removeCredentialsFinalizer: Get the secret the
\* reference names (in its namespace, or the default one), add or remove the
\* token on its finalizer list, Update the secret.
changeCredentialsFinalizer(add, store, fins, ref, defaultNamespace, token, getFails, updateFails) ==
    LET key     == <<RefNamespace(ref, defaultNamespace), ref.name>>
        changed == IF add THEN controllerutil_AddFinalizer(fins[key], token).finalizers
                   ELSE controllerutil_RemoveFinalizer(fins[key], token).finalizers
    IN  CASE getFails \/ ~store[key].exists ->
               [ret |-> GetCredentialsFailed, gets |-> 1, writes |-> 0, key |-> key,
                fins |-> fins]
          [] ~getFails /\ store[key].exists /\ updateFails ->
               [ret |-> UpdateFailed, gets |-> 1, writes |-> 1, key |-> key,
                fins |-> fins]
          [] OTHER ->
               [ret |-> Ok, gets |-> 1, writes |-> 1, key |-> key,
                fins |-> [fins EXCEPT ![key] = changed]]

CredFrame == UNCHANGED <<machineRef, clusterRef, secrets, dataSecretName, bootSecret,
                         cp, obj, scope, reads, clients, extMod>>

\* The operation on the reference ref of the object in namespace
\* defaultNamespace; nothing at all when ref is nil.
CredentialsRefFinalizer(op, add, ref, defaultNamespace) ==
    /\ CanOperate
    /\ IF ~ref.present
       THEN /\ secretFinalizers' = secretFinalizers
            /\ hist' = Append(hist, CredOpRecord(op, Ok, 0, 0, NoKey, NoToken,
                                                 secretFinalizers))
       ELSE \E getFails \in BOOLEAN, updateFails \in BOOLEAN :
               LET token == toFinalizer(MachineKind, MachineGroup, MachineNamespace,
                                        MachineName)
                   r == changeCredentialsFinalizer(add, secrets, secretFinalizers, ref,
                            defaultNamespace, token, getFails, updateFails)
               IN  /\ secretFinalizers' = r.fins
                   /\ hist' = Append(hist, CredOpRecord(op, r.ret, r.gets, r.writes,
                                                        r.key, token, r.fins))
    /\ CredFrame

\* The operation guarded by the reference in use, the parent's included.
AddCredentialsRefFinalizer_SelectedRef ==
    LET sel == SelectCredentialRef(machineRef, clusterRef)
    IN  CredentialsRefFinalizer("AddCredentialsRefFinalizer", TRUE, sel.ref,
                                sel.defaultNamespace)

AddCredentialsRefFinalizer ==
    CredentialsRefFinalizer("AddCredentialsRefFinalizer", TRUE, machineRef,
                            MachineNamespace)

\* The removal looking the reference up from the parent's namespace.
RemoveCredentialsRefFinalizer_ClusterNamespace ==
    CredentialsRefFinalizer("RemoveCredentialsRefFinalizer", FALSE, machineRef,
                            ClusterNamespace)

RemoveCredentialsRefFinalizer ==
    CredentialsRefFinalizer("RemoveCredentialsRefFinalizer", FALSE, machineRef,
                            MachineNamespace)

----------------------------------------------------------------------------
(* Specifications *)

SecretKeys == Namespaces \X SecretNames

NoSecret == [exists |-> FALSE, api |-> "absent", dns |-> "absent"]

\* The credential references an owner LinodeMachine / a parent LinodeCluster
\* can carry: none, one without namespace, one naming the other namespace.
MachineRefs ==
    { NilRef,
      [present |-> TRUE, name |-> MachineCredsName, namespace |-> ""],
      [present |-> TRUE, name |-> MachineCredsName, namespace |-> ClusterNamespace] }
ClusterRefs ==
    { NilRef,
      [present |-> TRUE, name |-> ClusterCredsName, namespace |-> ""],
      [present |-> TRUE, name |-> ClusterCredsName, namespace |-> MachineNamespace] }

\* The shapes tried for each secret: every shape for the secret a reference
\* without namespace resolves to, missing or complete for the others.
ShapesAt(k) ==
    IF k \in {<<MachineNamespace, MachineCredsName>>, <<ClusterNamespace, ClusterCredsName>>}
    THEN SecretShapes
    ELSE { NoSecret, [exists |-> TRUE, api |-> "set", dns |-> "set"] }

\* The finalizer lists the LinodeMachine can have when the reconciler reads it.
InitialFinalizers ==
    { <<>>, <<MachineFinalizer>>, <<OtherFinalizer>>,
      <<OtherFinalizer, MachineFinalizer>> }

BootSecretStates == {"missing", "novalue", "value"}

\* The state common to the specifications: the reconciler has read the
\* LinodeMachine, no scope exists.
InitCommon ==
    /\ secretFinalizers = [k \in SecretKeys |-> <<>>]
    /\ obj = cp
    /\ scope = NoScope
    /\ reads = <<>>
    /\ clients = <<>>
    /\ hist = <<>>
    /\ extMod = FALSE

\* Operations of a scope built with the controller's credentials.
Init ==
    /\ machineRef = NilRef
    /\ clusterRef = NilRef
    /\ secrets = [k \in SecretKeys |-> NoSecret]
    /\ dataSecretName \in BOOLEAN
    /\ bootSecret \in BootSecretStates
    /\ cp \in {LinodeMachineObj(f, NoProviderID) : f \in InitialFinalizers}
    /\ InitCommon

Next ==
    \/ NewMachineScope
    \/ PatchObject
    \/ Close
    \/ AddFinalizer
    \/ Mutate
    \/ ExternalWrite
    \/ GetBootstrapData

Spec == Init /\ [][Next]_vars

\* The same with the removeFinalizer operation.
NextRemove ==
    \/ NewMachineScope
    \/ PatchObject
    \/ Close
    \/ AddFinalizer
    \/ Mutate
    \/ ExternalWrite
    \/ GetBootstrapData
    \/ RemoveFinalizer

SpecRemove == Init /\ [][NextRemove]_vars

\* Construction under every credential configuration.
InitCreate ==
    /\ machineRef \in MachineRefs
    /\ clusterRef \in ClusterRefs
    /\ secrets \in [SecretKeys -> SecretShapes]
    /\ \A k \in SecretKeys : secrets[k] \in ShapesAt(k)
    /\ dataSecretName = FALSE
    /\ bootSecret = "missing"
    /\ cp = LinodeMachineObj(<<>>, NoProviderID)
    /\ InitCommon

NextCreate ==
    \/ NewMachineScope

SpecCreate == InitCreate /\ [][NextCreate]_vars

\* The finalizer lists a credential secret can have when the scope is built.
CompleteSecret == [exists |-> TRUE, api |-> "set", dns |-> "set"]

InitialSecretFinalizers ==
    { <<>>, <<OtherMachineToken>>,
      <<toFinalizer(MachineKind, MachineGroup, MachineNamespace, MachineName)>>,
      <<toFinalizer(MachineKind, MachineGroup, MachineNamespace, MachineName),
        OtherMachineToken>> }

\* Protection of the credential secret under every pair of references, with
\* the owner's secrets present or missing and the parent's present.
InitCreds ==
    /\ machineRef \in MachineRefs
    /\ clusterRef \in ClusterRefs
    /\ secrets \in [SecretKeys -> {NoSecret, CompleteSecret}]
    /\ \A k \in SecretKeys : k[2] = ClusterCredsName => secrets[k] = CompleteSecret
    /\ \E f \in InitialSecretFinalizers : secretFinalizers = [k \in SecretKeys |-> f]
    /\ dataSecretName = FALSE
    /\ bootSecret = "missing"
    /\ cp = LinodeMachineObj(<<>>, NoProviderID)
    /\ obj = cp
    /\ scope = NoScope
    /\ reads = <<>>
    /\ clients = <<>>
    /\ hist = <<>>
    /\ extMod = FALSE

NextCreds ==
    \/ NewMachineScope
    \/ AddCredentialsRefFinalizer
    \/ RemoveCredentialsRefFinalizer

SpecCreds == InitCreds /\ [][NextCreds]_vars

----------------------------------------------------------------------------
(* Construction: properties of SpecCreate *)

\* NewMachineScope has run and its parameters passed validation.
Resolved == scope.state # "none" /\ scope.params = AllParams

\* Every secret read addressed the secret of reference ref, looked up with
\* default namespace defNs.
ReadsAddress(ref, defNs) ==
    \A i \in 1..Len(reads) :
        reads[i].name = ref.name /\ reads[i].ns = RefNamespace(ref, defNs)

\* The primary token is the apiToken of the secret of ref, whenever it was read.
PrimaryFrom(ref, defNs) ==
    /\ Len(reads) >= 1
    /\ reads[1].key = "apiToken"
    /\ ~reads[1].err =>
          /\ scope.apiKey = SecretData(secrets[<<RefNamespace(ref, defNs), ref.name>>],
                                       RefNamespace(ref, defNs), ref.name, "apiToken")
          /\ Len(clients) >= 1 /\ clients[1] = scope.apiKey

\* C1: the credentials used are those of the owner's reference when present,
\* else those of the parent's reference when present, else the controller
\* defaults; only the secret of the selected reference is ever read.
C1_CredentialPrecedence ==
    Resolved =>
        /\ machineRef.present =>
              /\ ReadsAddress(machineRef, MachineNamespace)
              /\ PrimaryFrom(machineRef, MachineNamespace)
        /\ (~machineRef.present /\ clusterRef.present) =>
              /\ ReadsAddress(clusterRef, ClusterNamespace)
              /\ PrimaryFrom(clusterRef, ClusterNamespace)
        /\ (~machineRef.present /\ ~clusterRef.present) =>
              /\ reads = <<>>
              /\ scope.apiKey = scope.inApiKey
              /\ Len(clients) >= 1 /\ clients[1] = scope.inApiKey

\* Both references present, both secrets complete: a scope built from the owner's.
C1_Witness ==
    /\ scope.state = "built"
    /\ machineRef.present /\ clusterRef.present
    /\ secrets[<<RefNamespace(clusterRef, ClusterNamespace), clusterRef.name>>].exists
    /\ scope.apiKey = SecretToken(RefNamespace(machineRef, MachineNamespace),
                                  MachineCredsName, "apiToken")

\* The error validation returns for an absent field.
RequiredError(field) ==
    CASE field = "Cluster"       -> "cluster is required when creating a MachineScope"
      [] field = "Machine"       -> "machine is required when creating a MachineScope"
      [] field = "LinodeCluster" -> "linodeCluster is required when creating a MachineScope"
      [] field = "LinodeMachine" -> "linodeMachine is required when creating a MachineScope"

\* C6: with any of the four parameters nil, NewMachineScope returns no scope
\* but an error naming an absent field, reads no secret, constructs no client
\* and takes no snapshot.
C6_ValidationFirst ==
    (scope.state # "none" /\ scope.params # AllParams) =>
        /\ scope.state = "failed"
        /\ \E f \in DOMAIN scope.params :
              ~scope.params[f] /\ scope.err = RequiredError(f)
        /\ reads = <<>>
        /\ clients = <<>>
        /\ ~scope.helper

\* machine = nil, everything else given, the owner carrying a reference.
C6_Witness ==
    /\ scope.state = "failed"
    /\ scope.params = [AllParams EXCEPT !.Machine = FALSE]
    /\ machineRef.present
    /\ scope.inApiKey # Empty

\* The secret of the selected reference.
SelectedSecret == secrets[<<reads[1].ns, reads[1].name>>]

\* C7: when the apiToken X of the selected secret was read, the primary token
\* is X; the secondary token is the secret's dnsToken Y when that is
\* non-empty and was read, and X when dnsToken is absent or empty; a missing
\* dnsToken is no error.
C7_SecondaryTokenRule ==
    (Resolved /\ Len(reads) >= 1 /\ ~reads[1].err) =>
        /\ Len(reads) = 2
        /\ reads[2].key = "dnsToken"
        /\ reads[2].ns = reads[1].ns /\ reads[2].name = reads[1].name
        /\ scope.apiKey = SecretToken(reads[1].ns, reads[1].name, "apiToken")
             \/ (SelectedSecret.api = "empty" /\ scope.apiKey = Empty)
        /\ (SelectedSecret.dns = "set" /\ ~reads[2].err) =>
              scope.dnsKey = SecretToken(reads[1].ns, reads[1].name, "dnsToken")
        /\ SelectedSecret.dns \in {"absent", "empty"} =>
              scope.dnsKey = scope.apiKey
        /\ scope.err # "credentials from secret ref"
        /\ Len(clients) = 2 => clients[2] = scope.dnsKey

\* A scope built from a secret whose dnsToken is empty.
C7_Witness ==
    /\ scope.state = "built"
    /\ Len(reads) = 2
    /\ SelectedSecret.dns = "empty"
    /\ scope.dnsKey = scope.apiKey

\* Neither the owner nor the parent carries a reference.
NoReference == ~machineRef.present /\ ~clusterRef.present

CredentialsError == "credentials from secret ref"
ClientError == "failed to create linode client"
HelperError == "failed to init patch helper"

\* C12: NewMachineScope returns either a fully assembled scope and no error
\* or an error and no scope. With a reference selected whose apiToken cannot
\* be read (secret or key missing) it returns the credentials error without
\* reading dnsToken, constructing a client or taking the snapshot; a client
\* that cannot be constructed yields the client error and no scope.
C12_NoPartialScope ==
    scope.state # "none" =>
        /\ scope.state \in {"built", "failed"}
        /\ scope.state = "built" <=> scope.err = NoErr
        /\ scope.state = "built" =>
              /\ scope.helper
              /\ Len(clients) = 2
              /\ clients[1] # Empty /\ clients[2] # Empty
        /\ scope.state = "failed" => ~scope.helper
        /\ (Resolved /\ Len(reads) >= 1) =>
              /\ (~SelectedSecret.exists \/ SelectedSecret.api = "absent") => reads[1].err
              /\ reads[1].err =>
                    /\ scope.err = CredentialsError
                    /\ Len(reads) = 1
                    /\ reads[1].key = "apiToken"
                    /\ clients = <<>>
        /\ (\E i \in 1..Len(clients) : clients[i] = Empty) =>
              /\ scope.state = "failed"
              /\ scope.err = ClientError

\* The selected reference names a secret that has a dnsToken but no apiToken.
C12_Witness ==
    /\ Resolved
    /\ Len(reads) = 1
    /\ SelectedSecret.exists /\ SelectedSecret.api = "absent"
    /\ SelectedSecret.dns = "set"
    /\ scope.state = "failed"
    /\ scope.inApiKey # Empty /\ scope.inDnsKey # Empty

\* C13: with a reference selected and its apiToken read, a dnsToken read that
\* fails for whatever reason does not fail NewMachineScope: the secondary
\* token is the primary token and, unless a client or the helper cannot be
\* set up, the scope is returned.
C13_DnsReadErrorFallsBack ==
    (Resolved /\ Len(reads) = 2 /\ reads[2].err) =>
        /\ scope.dnsKey = scope.apiKey
        /\ scope.err # CredentialsError
        /\ Len(clients) = 2 => clients[2] = scope.apiKey
        /\ (scope.apiKey # Empty /\ scope.err # HelperError) => scope.state = "built"

\* A scope built although the read of an existing dnsToken failed.
C13_Witness ==
    /\ scope.state = "built"
    /\ Len(reads) = 2
    /\ reads[2].err
    /\ SelectedSecret.dns = "set"
    /\ scope.dnsKey = SecretToken(reads[1].ns, reads[1].name, "apiToken")

\* C15: NewMachineScope, succeeding or failing, leaves the in-memory
\* LinodeMachine and its control-plane copy as they were, and changes no
\* secret: it only reads secrets and constructs clients.
C15_ConstructionFrame ==
    [][ (scope.state = "none" /\ scope'.state # "none") =>
           /\ obj' = obj
           /\ cp' = cp
           /\ secrets' = secrets
           /\ secretFinalizers' = secretFinalizers ]_vars

\* A scope built after both secret reads and both client constructions.
C15_Witness ==
    /\ scope.state = "built"
    /\ Len(reads) = 2
    /\ Len(clients) = 2
    /\ obj = cp

\* C16: every secret lookup of NewMachineScope is handed the selected
\* reference and the namespace of the object that carries it - the
\* LinodeMachine's for the owner's reference, the LinodeCluster's for the
\* parent's - the same for apiToken and dnsToken; a reference without
\* namespace is therefore looked up in that object's namespace.
C16_NamespaceDefault ==
    Resolved =>
        \A i \in 1..Len(reads) :
            /\ machineRef.present =>
                  /\ reads[i].ref = machineRef
                  /\ reads[i].defaultNamespace = MachineNamespace
                  /\ machineRef.namespace = "" => reads[i].ns = MachineNamespace
            /\ (~machineRef.present /\ clusterRef.present) =>
                  /\ reads[i].ref = clusterRef
                  /\ reads[i].defaultNamespace = ClusterNamespace
                  /\ clusterRef.namespace = "" => reads[i].ns = ClusterNamespace
            /\ reads[i].ref = reads[1].ref
            /\ reads[i].defaultNamespace = reads[1].defaultNamespace
            /\ reads[i].ns = reads[1].ns

\* The parent's reference, without namespace, was selected and both keys read.
C16_Witness ==
    /\ Resolved
    /\ ~machineRef.present
    /\ clusterRef.present /\ clusterRef.namespace = ""
    /\ Len(reads) = 2
    /\ reads[2].ns = ClusterNamespace
    /\ secrets[<<MachineNamespace, ClusterCredsName>>].exists

----------------------------------------------------------------------------
(* Operations of a scope: properties of Spec and SpecRemove *)

\* Operations i and i+1 of the scope, with nothing invoked on it in between.
Consecutive(i, ops1, ops2) ==
    /\ i \in 1..(Len(hist) - 1)
    /\ hist[i].op \in ops1
    /\ hist[i + 1].op \in ops2

PersistOps == {"PatchObject", "Close"}

\* C2: of two AddFinalizer calls in sequence, the second returns success
\* without a patch request and leaves the token once in the finalizer list;
\* when the token was absent before the first call, the pair issues exactly
\* one patch request, that of the first call, which puts the token on the
\* control-plane copy when it succeeds.
C2_AddFinalizerTwice ==
    \A i \in 1..Len(hist) :
        Consecutive(i, {"AddFinalizer"}, {"AddFinalizer"}) =>
            /\ hist[i + 1].ret = Ok
            /\ hist[i + 1].writes = 0
            /\ hist[i + 1].count = 1
            /\ hist[i].writes + hist[i + 1].writes <= 1
            /\ ~hist[i].had =>
                  /\ hist[i].writes = 1
                  /\ hist[i].ret = Ok => hist[i].cpHas

\* Two AddFinalizer calls in sequence on a LinodeMachine without the token,
\* the first one persisted.
C2_Witness ==
    /\ Consecutive(1, {"AddFinalizer"}, {"AddFinalizer"})
    /\ ~hist[1].had
    /\ hist[1].ret = Ok
    /\ hist[2].cpHas

\* C3 as stated: of two persists in sequence, the first successful, with no
\* mutation of the owner object in between, the second issues no write.
C3_Original ==
    \A i \in 1..Len(hist) :
        (Consecutive(i, PersistOps, PersistOps) /\ hist[i].ret = Ok) =>
            hist[i + 1].writes = 0

\* The error a persist is to fail with when the control-plane copy was changed.
Conflict == "conflict"

\* C4 as stated: a persist whose request reaches the server after another
\* writer changed the control-plane copy fails with the conflict error and
\* does not undo that writer's change.
C4_Original ==
    \A i \in 1..Len(hist) :
        (hist[i].stale /\ hist[i].writes > 0 /\ hist[i].ret # PatchFailed) =>
            /\ hist[i].ret = Conflict
            /\ ~hist[i].overwrote

\* C5 as stated: whenever AddFinalizer has returned success, the
\* control-plane copy holds the token.
C5_Original ==
    \A i \in 1..Len(hist) :
        (hist[i].op = "AddFinalizer" /\ hist[i].ret = Ok) => hist[i].cpHas

\* C9 as stated: removeFinalizer on a finalizer list without the token issues
\* no write and returns success; with the token present it removes it and
\* persists the removal at once, so that on success the control-plane copy no
\* longer holds the token.
C9_Original ==
    \A i \in 1..Len(hist) :
        hist[i].op = "RemoveFinalizer" =>
            /\ hist[i].count = 0
            /\ ~hist[i].had => (hist[i].writes = 0 /\ hist[i].ret = Ok)
            /\ (hist[i].had /\ hist[i].ret = Ok) => ~hist[i].cpHas

\* C10: GetBootstrapData on a Machine without DataSecretName fails with the
\* nil-secret error, issues no Get and returns no payload.
C10_NoReferenceNoGet ==
    \A i \in 1..Len(hist) :
        (hist[i].op = "GetBootstrapData" /\ ~dataSecretName) =>
            /\ hist[i].ret = NilDataSecret
            /\ hist[i].gets = 0
            /\ hist[i].data = Empty

\* GetBootstrapData was called without DataSecretName while a bootstrap
\* secret with a payload exists.
C10_Witness ==
    /\ ~dataSecretName
    /\ bootSecret = "value"
    /\ \E i \in 1..Len(hist) : hist[i].op = "GetBootstrapData"

\* C14: GetBootstrapData returns a payload only on success and tells its
\* failures apart. With DataSecretName set: a secret that does not exist
\* gives the retrieval error; a secret that was fetched and has no `value`
\* key gives the missing-key error; the bytes under `value` are returned
\* exactly when the secret exists, has the key and the Get succeeds. The
\* nil-secret error is returned exactly when DataSecretName is nil.
C14_BootstrapFailureKinds ==
    \A i \in 1..Len(hist) :
        hist[i].op = "GetBootstrapData" =>
            /\ hist[i].ret \in {Ok, NilDataSecret, GetSecretFailed, ValueKeyMissing}
            /\ hist[i].ret # Ok => hist[i].data = Empty
            /\ hist[i].ret = Ok => hist[i].data = BootstrapValue
            /\ hist[i].ret = NilDataSecret <=> ~dataSecretName
            /\ (dataSecretName /\ bootSecret = "missing") => hist[i].ret = GetSecretFailed
            /\ hist[i].ret = ValueKeyMissing => (dataSecretName /\ bootSecret = "novalue")
            /\ (dataSecretName /\ bootSecret = "novalue") =>
                  hist[i].ret \in {ValueKeyMissing, GetSecretFailed}
            /\ hist[i].ret = Ok => (dataSecretName /\ bootSecret = "value")
            /\ (dataSecretName /\ bootSecret = "value") =>
                  hist[i].ret \in {Ok, GetSecretFailed}
            /\ hist[i].ret # NilDataSecret => hist[i].gets = 1

\* A secret without the `value` key was fetched twice: no payload, the
\* missing-key error both times.
C14_Witness ==
    /\ dataSecretName
    /\ bootSecret = "novalue"
    /\ Consecutive(1, {"GetBootstrapData"}, {"GetBootstrapData"})
    /\ hist[1].ret = ValueKeyMissing
    /\ hist[2].ret = ValueKeyMissing

\* C18: an AddFinalizer whose patch fails returns the error and leaves the
\* token on the in-memory list and off the control-plane copy; an AddFinalizer
\* that follows returns success without a write and changes nothing on the
\* control plane; from then on the control-plane copy holds the token only
\* after a PatchObject or Close whose write succeeded.
C18_NoRollback ==
    \A i \in 1..Len(hist) :
        (hist[i].op = "AddFinalizer" /\ hist[i].ret = PatchFailed) =>
            /\ hist[i].writes = 1
            /\ hist[i].count = 1
            /\ ~hist[i].cpHas
            /\ Consecutive(i, {"AddFinalizer"}, {"AddFinalizer"}) =>
                  /\ hist[i + 1].ret = Ok
                  /\ hist[i + 1].writes = 0
                  /\ hist[i + 1].count = 1
                  /\ ~hist[i + 1].cpHas
            /\ \A j \in (i + 1)..Len(hist) :
                  hist[j].cpHas =>
                      \E k \in (i + 1)..j :
                          /\ hist[k].op \in PersistOps
                          /\ hist[k].ret = Ok
                          /\ hist[k].writes = 1
            /\ ContainsFinalizer(cp.finalizers, MachineFinalizer) =>
                  \E k \in (i + 1)..Len(hist) :
                      hist[k].op \in PersistOps /\ hist[k].ret = Ok

\* A failed AddFinalizer, a second one that succeeds without a write, then a
\* Close that puts the token on the control plane.
C18_Witness ==
    /\ Len(hist) = 3
    /\ hist[1].op = "AddFinalizer" /\ hist[1].ret = PatchFailed
    /\ hist[2].op = "AddFinalizer" /\ hist[2].ret = Ok /\ ~hist[2].cpHas
    /\ hist[3].op = "Close" /\ hist[3].ret = Ok /\ hist[3].cpHas
    /\ ContainsFinalizer(cp.finalizers, MachineFinalizer)

----------------------------------------------------------------------------
(* Protection of the credential secret: properties of SpecCreds *)

CredOps == {"AddCredentialsRefFinalizer", "RemoveCredentialsRefFinalizer"}

\* The token of the owner LinodeMachine.
OwnerToken == toFinalizer(MachineKind, MachineGroup, MachineNamespace, MachineName)

\* C11: without a credential override on the owner LinodeMachine,
\* AddCredentialsRefFinalizer and RemoveCredentialsRefFinalizer return
\* success, issue no Get and no Update and leave the finalizers of every
\* secret as they were, also when the scope's credentials come from the
\* parent's override.
C11_NoOverrideNoOp ==
    \A i \in 1..Len(hist) :
        (hist[i].op \in CredOps /\ ~machineRef.present) =>
            /\ hist[i].ret = Ok
            /\ hist[i].gets = 0
            /\ hist[i].writes = 0
            /\ hist[i].after = hist[i].before
            /\ secretFinalizers = hist[1].before

\* A scope built with the parent's credentials on which both operations ran.
C11_Witness ==
    /\ scope.state = "built"
    /\ scope.source = "cluster"
    /\ Len(hist) >= 2
    /\ hist[1].op = "AddCredentialsRefFinalizer"
    /\ hist[2].op = "RemoveCredentialsRefFinalizer"
    /\ secretFinalizers[<<ClusterNamespace, ClusterCredsName>>] = <<OtherMachineToken>>

\* The finalizer list fins without token t, the order of the rest kept.
Without(fins, t) == SelectSeq(fins, LAMBDA f : f # t)

\* C17: AddCredentialsRefFinalizer followed by RemoveCredentialsRefFinalizer,
\* both succeeding, address the same secret - the one the owner's reference
\* names, looked up from the owner's namespace - with the same token, that of
\* the owner; afterwards that secret's finalizers are those from before the
\* pair without the owner's token (the very list from before when the token
\* was not on it), and the finalizers of other objects and of other secrets
\* are untouched.
C17_ProtectThenRelease ==
    \A i \in 1..Len(hist) :
        ( /\ Consecutive(i, {"AddCredentialsRefFinalizer"},
                            {"RemoveCredentialsRefFinalizer"})
          /\ machineRef.present
          /\ hist[i].ret = Ok /\ hist[i + 1].ret = Ok ) =>
            LET key == hist[i].secret
                pre == hist[i].before
                post == hist[i + 1].after
            IN  /\ key = <<RefNamespace(machineRef, MachineNamespace), machineRef.name>>
                /\ hist[i + 1].secret = key
                /\ hist[i].token = OwnerToken
                /\ hist[i + 1].token = OwnerToken
                /\ ContainsFinalizer(hist[i].after[key], OwnerToken)
                /\ post = [pre EXCEPT ![key] = Without(@, OwnerToken)]
                /\ ~ContainsFinalizer(pre[key], OwnerToken) => post = pre
                /\ Occurrences(post[key], OtherMachineToken)
                     = Occurrences(pre[key], OtherMachineToken)

\* The pair ran on a secret that held only the token of another LinodeMachine.
C17_Witness ==
    /\ Consecutive(1, {"AddCredentialsRefFinalizer"}, {"RemoveCredentialsRefFinalizer"})
    /\ machineRef.present /\ machineRef.namespace = ""
    /\ hist[1].ret = Ok /\ hist[2].ret = Ok
    /\ hist[1].before[hist[1].secret] = <<OtherMachineToken>>
    /\ hist[1].after[hist[1].secret] = <<OtherMachineToken, OwnerToken>>
    /\ secretFinalizers[hist[1].secret] = <<OtherMachineToken>>

====
